---- MODULE Spec2Model ----
(***************************************************************************)
(* Model of weekly-tasks/Week4/Part1-Geth/monitor_setup.go: func main.     *)
(*                                                                         *)
(* The main goroutine is a sequential process whose position is pc.  The   *)
(* RPC client library and the operating system are the environment: they   *)
(* decide whether the dial and the two subscription requests succeed, they *)
(* push block headers and pending-transaction hashes onto the two          *)
(* unbuffered channels, they report subscription errors on the Err()       *)
(* channels and they deliver SIGINT.                                       *)
(*                                                                         *)
(* Go semantics the model relies on:                                       *)
(*  - log.Fatalf logs and calls os.Exit(1): deferred calls do NOT run;     *)
(*  - return from main runs the deferred calls (LIFO) and exits with 0;    *)
(*  - a run-time panic runs the deferred calls and exits with status 2;    *)
(*  - on entering a select statement every channel operand is evaluated,   *)
(*    in source order, before any case is chosen; among the ready cases    *)
(*    one is chosen uniformly at random;                                   *)
(*  - calling Err() on a nil subscription dereferences nil and panics;     *)
(*  - before signal.Notify the default disposition of SIGINT ends the      *)
(*    process; after it the signal is sent without blocking to sigChan     *)
(*    (capacity 1) and is dropped when the buffer is full.                 *)
(***************************************************************************)
EXTENDS Integers, Sequences, FiniteSets

VARIABLES
    pc,        \* position of main
    exit,      \* "running" | "ok" (0) | "fatal" (1) | "panic" (2) | "sigkill"
    ctx,       \* dial context: "none" | "live" | "expired" | "cancelled"
    conn,      \* rpcClient: "nil" | "open" | "closed"
    headSub,   \* subscription A handle: "nil" | "active" | "unsubscribed"
    txSub,     \* subscription B handle: "nil" | "active" | "unsubscribed"
    notified,  \* signal.Notify(sigChan, os.Interrupt) has been called
    sigBuf,    \* number of signals buffered in sigChan (capacity 1)
    sigCount,  \* number of interrupts the operating system has delivered
    headSent,  \* number of headers the source has offered on newHeadChan
    headRecv,  \* number of headers main has received from newHeadChan
    txSent,    \* number of hashes the source has offered on pendingTxChan
    txRecv,    \* number of hashes main has received from pendingTxChan
    headErr,   \* headSub.Err(): "none" | "ready" | "taken"
    txErr,     \* txSub.Err():   "none" | "ready" | "taken"
    cur,       \* the value received by the select case being handled
    evald,     \* channel operands of subscriptions evaluated by a select
    out,       \* console output, in order: <<kind, n>>
    calls      \* calls into the client library / runtime, in order

vars == <<pc, exit, ctx, conn, headSub, txSub, notified, sigBuf, sigCount,
          headSent, headRecv, txSent, txRecv, headErr, txErr, cur, evald,
          out, calls>>

\* Bounds of the model.
MaxEvents == 2      \* events each source offers in one run
MaxSignals == 2     \* interrupts delivered in one run

\* capacity of sigChan
SigChanCap == 1

\* The k-th event of a stream is identified by k (block height / hash id);
\* cur is 0 while no received value is being handled.

Line(kind, n) == <<kind, n>>

Printed(kind) ==
    LET keep(l) == l[1] = kind
        RECURSIVE vals(_)
        vals(s) == IF s = <<>> THEN <<>> ELSE <<Head(s)[2]>> \o vals(Tail(s))
    IN  vals(SelectSeq(out, keep))

Said(kind) == \E i \in 1..Len(out) : out[i][1] = kind

Called(name) == \E i \in 1..Len(calls) : calls[i] = name

CountCalls(name) == Cardinality({i \in 1..Len(calls) : calls[i] = name})

\* position of the first call of that name, 0 when it was never made
CallPos(name) ==
    IF Called(name) THEN CHOOSE i \in 1..Len(calls) :
                             calls[i] = name /\ \A j \in 1..(i-1) : calls[j] # name
    ELSE 0

Init ==
    /\ pc = "dial"
    /\ exit = "running"
    /\ ctx = "none"
    /\ conn = "nil"
    /\ headSub = "nil"
    /\ txSub = "nil"
    /\ notified = FALSE
    /\ sigBuf = 0
    /\ sigCount = 0
    /\ headSent = 0
    /\ headRecv = 0
    /\ txSent = 0
    /\ txRecv = 0
    /\ headErr = "none"
    /\ txErr = "none"
    /\ cur = 0
    /\ evald = {}
    /\ out = <<>>
    /\ calls = <<>>

\* log.Fatalf: print the message, os.Exit(1); deferred calls are skipped.
Fatalf(msg, pre) ==
    /\ out' = pre \o <<Line(msg, 0)>>
    /\ pc' = "done"
    /\ exit' = "fatal"

\* The deferred calls of main, run on return and on panic (LIFO):
\* rpcClient.Close() (line 49), then cancel() (line 38).
RunDeferred(pre) ==
    /\ conn' = "closed"
    /\ ctx' = "cancelled"
    /\ calls' = pre \o <<"Close", "cancel">>

(***************************************************************************)
(* Startup                                                                 *)
(***************************************************************************)

\* As Dial, but a failed dial is only logged and startup goes on.
Dial_NotFatal ==
    /\ pc = "dial"
    /\ calls' = Append(calls, "DialContext")
    /\ \E res \in {"ok", "unreachable", "timeout"} :
         IF res = "ok"
         THEN /\ ctx' = "live"
              /\ conn' = "open"
              /\ out' = out \o <<Line("start", 0), Line("connected", 0)>>
         ELSE /\ ctx' = IF res = "timeout" THEN "expired" ELSE "live"
              /\ conn' = conn
              /\ out' = out \o <<Line("start", 0), Line("fatalDial", 0)>>
    /\ pc' = "subA"
    /\ UNCHANGED <<exit, headSub, txSub, notified, sigBuf, sigCount, headSent,
                   headRecv, txSent, txRecv, headErr, txErr, cur, evald>>

\* lines 33-50: context.WithTimeout, rpc.DialContext, defer rpcClient.Close()
Dial ==
    /\ pc = "dial"
    /\ calls' = Append(calls, "DialContext")
    /\ \E res \in {"ok", "unreachable", "timeout"} :
         IF res = "ok"
         THEN /\ ctx' = "live"
              /\ conn' = "open"
              /\ out' = out \o <<Line("start", 0), Line("connected", 0)>>
              /\ pc' = "subA"
              /\ exit' = exit
         ELSE /\ ctx' = IF res = "timeout" THEN "expired" ELSE "live"
              /\ conn' = conn
              /\ Fatalf("fatalDial", out \o <<Line("start", 0)>>)
    /\ UNCHANGED <<headSub, txSub, notified, sigBuf, sigCount, headSent,
                   headRecv, txSent, txRecv, headErr, txErr, cur, evald>>

\* As SubscribeNewHead, but a failed request is only logged.
SubscribeNewHead_NotFatal ==
    /\ pc = "subA"
    /\ calls' = Append(calls, "SubscribeNewHead")
    /\ \E ok \in BOOLEAN :
         IF ok
         THEN /\ headSub' = "active"
              /\ out' = Append(out, Line("listenA", 0))
         ELSE /\ headSub' = headSub
              /\ out' = Append(out, Line("fatalSubA", 0))
    /\ pc' = "subB"
    /\ UNCHANGED <<exit, ctx, conn, txSub, notified, sigBuf, sigCount, headSent,
                   headRecv, txSent, txRecv, headErr, txErr, cur, evald>>

\* lines 54-68: the two clients, the two channels, ethClient.SubscribeNewHead
SubscribeNewHead ==
    /\ pc = "subA"
    /\ calls' = Append(calls, "SubscribeNewHead")
    /\ \E ok \in BOOLEAN :
         IF ok
         THEN /\ headSub' = "active"
              /\ out' = Append(out, Line("listenA", 0))
              /\ pc' = "subB"
              /\ exit' = exit
         ELSE /\ headSub' = headSub
              /\ Fatalf("fatalSubA", out)
    /\ UNCHANGED <<ctx, conn, txSub, notified, sigBuf, sigCount, headSent,
                   headRecv, txSent, txRecv, headErr, txErr, cur, evald>>

\* lines 72-83: gethClient.SubscribePendingTransactions; failure is a warning
SubscribePendingTransactions ==
    /\ pc = "subB"
    /\ calls' = Append(calls, "SubscribePendingTransactions")
    /\ \E ok \in BOOLEAN :
         IF ok
         THEN /\ txSub' = "active"
              /\ out' = Append(out, Line("listenB", 0))
         ELSE /\ txSub' = "nil"
              /\ out' = Append(out, Line("warnB", 0))
    /\ pc' = "notify"
    /\ UNCHANGED <<exit, ctx, conn, headSub, notified, sigBuf, sigCount, headSent,
                   headRecv, txSent, txRecv, headErr, txErr, cur, evald>>

\* lines 86-90: sigChan, signal.Notify, the "monitoring started" line
Notify ==
    /\ pc = "notify"
    /\ notified' = TRUE
    /\ calls' = Append(calls, "Notify")
    /\ out' = Append(out, Line("started", 0))
    /\ pc' = "loop"
    /\ UNCHANGED <<exit, ctx, conn, headSub, txSub, sigBuf, sigCount, headSent,
                   headRecv, txSent, txRecv, headErr, txErr, cur, evald>>

(***************************************************************************)
(* Dispatch loop (lines 91-125)                                            *)
(***************************************************************************)

Running == pc \in {"loop", "select", "printHead", "printTx", "fatalHead",
                   "txErr", "shutdown"}

\* lines 91-92 with the operands of lines 109 and 111: entering the select
\* evaluates headSub.Err() and txSub.Err(); txSub.Err() on a nil txSub is a
\* nil dereference: main panics, its deferred calls run, exit status 2.
EnterSelect ==
    /\ pc = "loop"
    /\ evald' = evald \cup {"headSub.Err", "txSub.Err"}
    /\ IF txSub = "nil"
       THEN /\ pc' = "done"
            /\ exit' = "panic"
            /\ RunDeferred(calls)
       ELSE /\ pc' = "select"
            /\ UNCHANGED <<exit, conn, ctx, calls>>
    /\ UNCHANGED <<headSub, txSub, notified, sigBuf, sigCount, headSent,
                   headRecv, txSent, txRecv, headErr, txErr, cur, out>>

\* As RecvHead, but the header case is taken only when no interrupt is
\* buffered (the interrupt has priority).
RecvHead_AfterSig ==
    /\ pc = "select"
    /\ sigBuf = 0
    /\ headRecv < headSent
    /\ cur' = headRecv + 1
    /\ headRecv' = headRecv + 1
    /\ pc' = "printHead"
    /\ UNCHANGED <<exit, ctx, conn, headSub, txSub, notified, sigBuf, sigCount,
                   headSent, txSent, txRecv, headErr, txErr, evald, out, calls>>

\* As RecvHead, but takes the newest offered header instead of the oldest.
RecvHead_Newest ==
    /\ pc = "select"
    /\ headRecv < headSent
    /\ cur' = headSent
    /\ headRecv' = headRecv + 1
    /\ pc' = "printHead"
    /\ UNCHANGED <<exit, ctx, conn, headSub, txSub, notified, sigBuf, sigCount,
                   headSent, txSent, txRecv, headErr, txErr, evald, out, calls>>

\* line 94: case header := <-newHeadChan
RecvHead ==
    /\ pc = "select"
    /\ headRecv < headSent
    /\ cur' = headRecv + 1
    /\ headRecv' = headRecv + 1
    /\ pc' = "printHead"
    /\ UNCHANGED <<exit, ctx, conn, headSub, txSub, notified, sigBuf, sigCount,
                   headSent, txSent, txRecv, headErr, txErr, evald, out, calls>>

\* lines 95-96: print the header, back to the top of the loop
PrintHead ==
    /\ pc = "printHead"
    /\ out' = Append(out, Line("block", cur))
    /\ cur' = 0
    /\ pc' = "loop"
    /\ UNCHANGED <<exit, ctx, conn, headSub, txSub, notified, sigBuf, sigCount,
                   headSent, headRecv, txSent, txRecv, headErr, txErr, evald,
                   calls>>

\* As RecvTx, but a header on offer is taken (and dropped) in the same
\* iteration.
RecvTx_AlsoHead ==
    /\ pc = "select"
    /\ txRecv < txSent
    /\ cur' = txRecv + 1
    /\ txRecv' = txRecv + 1
    /\ headRecv' = IF headRecv < headSent THEN headRecv + 1 ELSE headRecv
    /\ pc' = "printTx"
    /\ UNCHANGED <<exit, ctx, conn, headSub, txSub, notified, sigBuf, sigCount,
                   headSent, txSent, headErr, txErr, evald, out, calls>>

\* As RecvTx, but a hash is taken only after a header has been (the streams
\* are read in lockstep).
RecvTx_Lockstep ==
    /\ pc = "select"
    /\ txRecv < txSent
    /\ txRecv < headRecv
    /\ cur' = txRecv + 1
    /\ txRecv' = txRecv + 1
    /\ pc' = "printTx"
    /\ UNCHANGED <<exit, ctx, conn, headSub, txSub, notified, sigBuf, sigCount,
                   headSent, headRecv, txSent, headErr, txErr, evald, out, calls>>

\* line 101: case txHash := <-pendingTxChan
RecvTx ==
    /\ pc = "select"
    /\ txRecv < txSent
    /\ cur' = txRecv + 1
    /\ txRecv' = txRecv + 1
    /\ pc' = "printTx"
    /\ UNCHANGED <<exit, ctx, conn, headSub, txSub, notified, sigBuf, sigCount,
                   headSent, headRecv, txSent, headErr, txErr, evald, out, calls>>

\* line 103: print the hash, back to the top of the loop
PrintTx ==
    /\ pc = "printTx"
    /\ out' = Append(out, Line("tx", cur))
    /\ cur' = 0
    /\ pc' = "loop"
    /\ UNCHANGED <<exit, ctx, conn, headSub, txSub, notified, sigBuf, sigCount,
                   headSent, headRecv, txSent, txRecv, headErr, txErr, evald,
                   calls>>

\* line 109: case err := <-headSub.Err()
RecvHeadErr ==
    /\ pc = "select"
    /\ headErr = "ready"
    /\ headErr' = "taken"
    /\ pc' = "fatalHead"
    /\ UNCHANGED <<exit, ctx, conn, headSub, txSub, notified, sigBuf, sigCount,
                   headSent, headRecv, txSent, txRecv, txErr, cur, evald, out,
                   calls>>

\* As HeadErrFatal, but the error is logged and subscription A is requested
\* again (a reconnect attempt).
HeadErrFatal_Resubscribe ==
    /\ pc = "fatalHead"
    /\ out' = Append(out, Line("fatalHeadErr", 0))
    /\ pc' = "subA"
    /\ UNCHANGED <<exit, ctx, conn, headSub, txSub, notified, sigBuf, sigCount,
                   headSent, headRecv, txSent, txRecv, headErr, txErr, cur,
                   evald, calls>>

\* As HeadErrFatal, but logs with log.Printf and goes on with the loop.
HeadErrFatal_Continue ==
    /\ pc = "fatalHead"
    /\ out' = Append(out, Line("fatalHeadErr", 0))
    /\ pc' = "loop"
    /\ UNCHANGED <<exit, ctx, conn, headSub, txSub, notified, sigBuf, sigCount,
                   headSent, headRecv, txSent, txRecv, headErr, txErr, cur,
                   evald, calls>>

\* line 110: log.Fatalf
HeadErrFatal ==
    /\ pc = "fatalHead"
    /\ Fatalf("fatalHeadErr", out)
    /\ UNCHANGED <<ctx, conn, headSub, txSub, notified, sigBuf, sigCount,
                   headSent, headRecv, txSent, txRecv, headErr, txErr, cur,
                   evald, calls>>

\* line 111: case err := <-txSub.Err()
RecvTxErr ==
    /\ pc = "select"
    /\ txErr = "ready"
    /\ txErr' = "taken"
    /\ pc' = "txErr"
    /\ UNCHANGED <<exit, ctx, conn, headSub, txSub, notified, sigBuf, sigCount,
                   headSent, headRecv, txSent, txRecv, headErr, cur, evald, out,
                   calls>>

\* As TxErrFatal, but the error is logged and subscription B is requested
\* again (a retry).
TxErrFatal_Resubscribe ==
    /\ pc = "txErr"
    /\ out' = Append(out, Line("fatalTxErr", 0))
    /\ pc' = "subB"
    /\ UNCHANGED <<exit, ctx, conn, headSub, txSub, notified, sigBuf, sigCount,
                   headSent, headRecv, txSent, txRecv, headErr, txErr, cur,
                   evald, calls>>

\* As TxErrFatal, but with the guard inverted (if txSub == nil).
TxErrFatal_GuardInverted ==
    /\ pc = "txErr"
    /\ IF txSub = "nil"
       THEN Fatalf("fatalTxErr", out)
       ELSE /\ pc' = "loop"
            /\ UNCHANGED <<exit, out>>
    /\ UNCHANGED <<ctx, conn, headSub, txSub, notified, sigBuf, sigCount,
                   headSent, headRecv, txSent, txRecv, headErr, txErr, cur,
                   evald, calls>>

\* lines 112-114: if txSub != nil { log.Fatalf }
TxErrFatal ==
    /\ pc = "txErr"
    /\ IF txSub # "nil"
       THEN Fatalf("fatalTxErr", out)
       ELSE /\ pc' = "loop"
            /\ UNCHANGED <<exit, out>>
    /\ UNCHANGED <<ctx, conn, headSub, txSub, notified, sigBuf, sigCount,
                   headSent, headRecv, txSent, txRecv, headErr, txErr, cur,
                   evald, calls>>

\* line 117: case <-sigChan
RecvSig ==
    /\ pc = "select"
    /\ sigBuf > 0
    /\ sigBuf' = sigBuf - 1
    /\ pc' = "shutdown"
    /\ UNCHANGED <<exit, ctx, conn, headSub, txSub, notified, sigCount,
                   headSent, headRecv, txSent, txRecv, headErr, txErr, cur,
                   evald, out, calls>>

\* As Shutdown, but the connection is closed before the subscriptions are
\* unsubscribed.
Shutdown_CloseFirst ==
    /\ pc = "shutdown"
    /\ out' = Append(out, Line("stopping", 0))
    /\ headSub' = "unsubscribed"
    /\ txSub' = IF txSub # "nil" THEN "unsubscribed" ELSE txSub
    /\ conn' = "closed"
    /\ ctx' = "cancelled"
    /\ calls' = calls \o <<"Close", "headSub.Unsubscribe">>
                      \o (IF txSub # "nil" THEN <<"txSub.Unsubscribe">>
                                           ELSE <<>>)
                      \o <<"cancel">>
    /\ pc' = "done"
    /\ exit' = "ok"
    /\ UNCHANGED <<notified, sigBuf, sigCount, headSent, headRecv, txSent,
                   txRecv, headErr, txErr, cur, evald>>

\* lines 118-123: message, headSub.Unsubscribe(), guarded txSub.Unsubscribe(),
\* return (deferred Close and cancel run, exit status 0)
Shutdown ==
    /\ pc = "shutdown"
    /\ out' = Append(out, Line("stopping", 0))
    /\ headSub' = "unsubscribed"
    /\ txSub' = IF txSub # "nil" THEN "unsubscribed" ELSE txSub
    /\ RunDeferred(calls \o <<"headSub.Unsubscribe">>
                         \o (IF txSub # "nil" THEN <<"txSub.Unsubscribe">>
                                              ELSE <<>>))
    /\ pc' = "done"
    /\ exit' = "ok"
    /\ UNCHANGED <<notified, sigBuf, sigCount, headSent, headRecv, txSent,
                   txRecv, headErr, txErr, cur, evald>>

(***************************************************************************)
(* Environment: the node / client library and the operating system         *)
(***************************************************************************)

Alive == exit = "running"

\* the source offers the next block header on newHeadChan (line 59, 64)
HeadEvent ==
    /\ Alive
    /\ headSub = "active"
    /\ headErr = "none"
    /\ headSent < MaxEvents
    /\ headSent' = headSent + 1
    /\ UNCHANGED <<pc, exit, ctx, conn, headSub, txSub, notified, sigBuf,
                   sigCount, headRecv, txSent, txRecv, headErr, txErr, cur,
                   evald, out, calls>>

\* the source offers the next pending hash on pendingTxChan (line 60, 72)
TxEvent ==
    /\ Alive
    /\ txSub = "active"
    /\ txErr = "none"
    /\ txSent < MaxEvents
    /\ txSent' = txSent + 1
    /\ UNCHANGED <<pc, exit, ctx, conn, headSub, txSub, notified, sigBuf,
                   sigCount, headSent, headRecv, txRecv, headErr, txErr, cur,
                   evald, out, calls>>

\* subscription A reports an error on headSub.Err()
HeadSubError ==
    /\ Alive
    /\ headSub = "active"
    /\ headErr = "none"
    /\ headErr' = "ready"
    /\ UNCHANGED <<pc, exit, ctx, conn, headSub, txSub, notified, sigBuf,
                   sigCount, headSent, headRecv, txSent, txRecv, txErr, cur,
                   evald, out, calls>>

\* subscription B reports an error on txSub.Err()
TxSubError ==
    /\ Alive
    /\ txSub = "active"
    /\ txErr = "none"
    /\ txErr' = "ready"
    /\ UNCHANGED <<pc, exit, ctx, conn, headSub, txSub, notified, sigBuf,
                   sigCount, headSent, headRecv, txSent, txRecv, headErr, cur,
                   evald, out, calls>>

\* As Interrupt, but sigChan is unbuffered (make(chan os.Signal)): the
\* non-blocking send of the runtime succeeds only while main waits in the
\* select, otherwise the signal is dropped.
Interrupt_Unbuffered ==
    /\ Alive
    /\ sigCount < MaxSignals
    /\ sigCount' = sigCount + 1
    /\ IF notified
       THEN /\ sigBuf' = IF pc = "select" THEN SigChanCap ELSE sigBuf
            /\ UNCHANGED <<pc, exit>>
       ELSE /\ pc' = "done"
            /\ exit' = "sigkill"
            /\ UNCHANGED sigBuf
    /\ UNCHANGED <<ctx, conn, headSub, txSub, notified, headSent, headRecv,
                   txSent, txRecv, headErr, txErr, cur, evald, out, calls>>

\* SIGINT is delivered: default disposition before signal.Notify (line 87),
\* non-blocking send to the capacity-1 sigChan (line 86) after it
Interrupt ==
    /\ Alive
    /\ sigCount < MaxSignals
    /\ sigCount' = sigCount + 1
    /\ IF notified
       THEN /\ sigBuf' = IF sigBuf < SigChanCap THEN sigBuf + 1 ELSE sigBuf
            /\ UNCHANGED <<pc, exit>>
       ELSE /\ pc' = "done"
            /\ exit' = "sigkill"
            /\ UNCHANGED sigBuf
    /\ UNCHANGED <<ctx, conn, headSub, txSub, notified, headSent, headRecv,
                   txSent, txRecv, headErr, txErr, cur, evald, out, calls>>

\* the CONNECTION_TIMEOUT deadline of the dial context passes (lines 29, 37)
CtxExpire ==
    /\ Alive
    /\ ctx = "live"
    /\ ctx' = "expired"
    /\ UNCHANGED <<pc, exit, conn, headSub, txSub, notified, sigBuf, sigCount,
                   headSent, headRecv, txSent, txRecv, headErr, txErr, cur,
                   evald, out, calls>>

Main ==
    \/ Dial
    \/ SubscribeNewHead
    \/ SubscribePendingTransactions
    \/ Notify
    \/ EnterSelect
    \/ RecvHead
    \/ PrintHead
    \/ RecvTx
    \/ PrintTx
    \/ RecvHeadErr
    \/ HeadErrFatal
    \/ RecvTxErr
    \/ TxErrFatal
    \/ RecvSig
    \/ Shutdown

Env ==
    \/ HeadEvent
    \/ TxEvent
    \/ HeadSubError
    \/ TxSubError
    \/ Interrupt
    \/ CtxExpire

Next == Main \/ Env

Spec == Init /\ [][Next]_vars

\* Scheduling: main always takes its next step when it has one, and a select
\* case that is ready again and again is eventually the one chosen (Go picks
\* uniformly at random among the ready cases).
FairSpec ==
    /\ Spec
    /\ WF_vars(Main)
    /\ SF_vars(RecvHeadErr)
    /\ SF_vars(RecvTxErr)
    /\ SF_vars(RecvSig)

(***************************************************************************)
(* Properties                                                              *)
(***************************************************************************)

Done == pc = "done"

\* outcomes of the three startup requests
DialFailed == Called("DialContext") /\ conn = "nil"
AFailed == Called("SubscribeNewHead") /\ headSub = "nil"
BFailed == Called("SubscribePendingTransactions") /\ txSub = "nil"
BEstablished == Called("SubscribePendingTransactions") /\ txSub # "nil"

FatalLogged == Said("fatalDial") \/ Said("fatalSubA") \/ Said("fatalHeadErr")
                   \/ Said("fatalTxErr")

IsPrefix(p, s) == Len(p) <= Len(s) /\ \A i \in 1..Len(p) : p[i] = s[i]

\* what the two sources have produced so far, in order
HeadSource == [i \in 1..headSent |-> i]
TxSource == [i \in 1..txSent |-> i]

\* C1: when the request for subscription B failed (connection and A fine),
\* the process keeps operating: it stops only through an interrupt or an
\* error of subscription A.
C1_Claim ==
    (BFailed /\ Done) =>
        \/ exit \in {"ok", "sigkill"}
        \/ exit = "fatal" /\ Said("fatalHeadErr")

\* C2: once the process has exited, an interrupt that was delivered while a
\* subscription was established has led to Unsubscribe on every subscription
\* active then.  (Stated for the interrupts the installed handler receives:
\* exit # "sigkill" means every delivered interrupt came after signal.Notify;
\* the interrupts before it end the process at once, with nothing
\* unsubscribed either.)
C2_Claim ==
    (Done /\ exit # "sigkill" /\ sigCount > 0) =>
        (headSub # "active" /\ txSub # "active")

\* C3: on every exit path of main (fatal log or return) every acquired
\* resource has been released: no subscription is left active and the
\* connection is not left open.
C3_Claim ==
    (Done /\ exit \in {"fatal", "ok"}) =>
        (conn # "open" /\ headSub # "active" /\ txSub # "active")

\* C4: an error of subscription A that is reported while Running always
\* leads to termination, and once the loop has received it the process only
\* logs it fatally and exits: it is never handled by going on with the loop.
C4_AErrorTerminates ==
    /\ (Running /\ headErr = "ready") ~> Done
    /\ [](headErr = "taken" =>
             \/ pc = "fatalHead"
             \/ Done /\ exit = "fatal" /\ Said("fatalHeadErr"))

\* C4 witness: A's error ended the process while B was healthy and still had
\* an event on offer.
C4_Witness ==
    /\ Done /\ exit = "fatal" /\ Said("fatalHeadErr")
    /\ txSub = "active" /\ txErr = "none" /\ txRecv < txSent

\* C5: per stream, what has been printed is a prefix of what the source
\* produced (no duplicate, skip or reordering), and every event received by
\* the loop has been printed exactly once when the loop waits again.
C5_PrintedInSourceOrder ==
    /\ IsPrefix(Printed("block"), HeadSource)
    /\ IsPrefix(Printed("tx"), TxSource)
    /\ Len(Printed("block")) = headRecv - (IF pc = "printHead" THEN 1 ELSE 0)
    /\ Len(Printed("tx")) = txRecv - (IF pc = "printTx" THEN 1 ELSE 0)

\* C5 witness: both streams delivered all their events, printed interleaved.
C5_Witness ==
    /\ Len(Printed("block")) = MaxEvents /\ Len(Printed("tx")) = MaxEvents
    /\ out[Len(out)][1] = "block" /\ out[Len(out) - 1][1] = "tx"

\* C6: while subscription B is absent no select evaluates a channel of B.
C6_Claim == BFailed => "txSub.Err" \notin evald

\* C7: the process stops either by the graceful return (status 0, after the
\* shutdown message, on an interrupt received by the loop) or by a logged
\* fatal error with non-zero status; there is no other way for main to stop.
\* (Stated for the terminations main itself performs.)
C7_Claim ==
    (Done /\ exit # "sigkill") =>
        \/ exit = "ok" /\ Said("stopping") /\ sigCount > 0
        \/ exit = "fatal" /\ FatalLogged

\* C8: a failed dial ends the process fatally at once: no subscription is
\* ever requested and the dispatch loop is never entered.
C8_DialFailureFatal ==
    DialFailed =>
        /\ Done /\ exit = "fatal" /\ Said("fatalDial")
        /\ ~Called("SubscribeNewHead")
        /\ ~Called("SubscribePendingTransactions")
        /\ ~Said("started") /\ evald = {}

\* C8 witness: the dial failed by timeout and the process is gone.
C8_Witness == DialFailed /\ ctx = "expired" /\ Done

\* C9: a failed request for subscription A ends the process fatally: B is
\* never requested, the interrupt handler is never installed, no event is
\* dispatched or printed.
C9_SubAFailureFatal ==
    AFailed =>
        /\ Done /\ exit = "fatal" /\ Said("fatalSubA")
        /\ ~Called("SubscribePendingTransactions")
        /\ ~notified /\ ~Called("Notify")
        /\ headRecv = 0 /\ txRecv = 0
        /\ Printed("block") = <<>> /\ Printed("tx") = <<>>

\* C9 witness: the connection was opened and the request for A failed.
C9_Witness == AFailed /\ conn = "open" /\ Done

\* C10: an error received from B's error channel is fatal on that iteration
\* when B is established, and a fatal B-error exit happens only with B
\* established.
C10_BErrorFatalIffActive ==
    /\ txErr = "taken" =>
          /\ BEstablished
          /\ \/ pc = "txErr"
             \/ Done /\ exit = "fatal" /\ Said("fatalTxErr")
    /\ Said("fatalTxErr") => (BEstablished /\ txErr = "taken")

\* C10 witness: B was established, reported an error and the process exited
\* on it.
C10_Witness == Done /\ exit = "fatal" /\ Said("fatalTxErr") /\ txSub = "active"

\* C11: with B absent the graceful shutdown does not touch B and completes
\* with a normal return: once an interrupt has reached the installed handler
\* and no subscription error was reported, the process ends with status 0,
\* A unsubscribed and no Unsubscribe on B.
C11_Claim ==
    (BFailed /\ Done /\ exit # "sigkill" /\ sigCount > 0
        /\ headErr = "none") =>
        /\ exit = "ok"
        /\ Called("headSub.Unsubscribe")
        /\ ~Called("txSub.Unsubscribe")

\* The lifecycle state of the process.  Lines 86-90 (handler installation and
\* the start message) follow the subscribing steps and belong to Running.
Lifecycle ==
    CASE pc = "dial" -> "Connecting"
      [] pc \in {"subA", "subB"} -> "Subscribing"
      [] pc \in {"notify", "loop", "select", "printHead", "printTx",
                 "fatalHead", "txErr"} -> "Running"
      [] pc = "shutdown" -> "ShuttingDown"
      [] pc = "done" -> "Terminated"

Rank(l) ==
    CASE l = "Connecting" -> 1
      [] l = "Subscribing" -> 2
      [] l = "Running" -> 3
      [] l = "ShuttingDown" -> 4
      [] l = "Terminated" -> 5

\* C12: the lifecycle only moves forward; a failed dial and a failed request
\* for A go straight to Terminated, a failed request for B goes to Running,
\* ShuttingDown is entered only from Running, Terminated is absorbing.
C12_LifecycleForward ==
    [][ /\ Rank(Lifecycle') >= Rank(Lifecycle)
        /\ (Lifecycle = "Terminated" => (Lifecycle' = "Terminated" /\ exit' = exit))
        /\ ((Lifecycle' = "ShuttingDown" /\ Lifecycle # "ShuttingDown")
               => Lifecycle = "Running")
        /\ ((pc = "dial" /\ calls' # calls /\ conn' = "nil")
               => (Lifecycle' = "Terminated" /\ exit' = "fatal"))
        /\ ((pc = "subA" /\ calls' # calls /\ headSub' = "nil")
               => (Lifecycle' = "Terminated" /\ exit' = "fatal"))
        /\ ((pc = "subB" /\ calls' # calls /\ txSub' = "nil")
               => (Lifecycle' = "Running" /\ exit' = "running"))
      ]_vars

\* C12 witness: a run that went through all five states and returned.
C12_Witness == Done /\ exit = "ok" /\ Said("stopping") /\ Said("started")

\* C13: nothing is retried: the dial and each subscription request are made
\* at most once in a run, also after a setup failure or a subscription error.
C13_NoRetry ==
    /\ CountCalls("DialContext") <= 1
    /\ CountCalls("SubscribeNewHead") <= 1
    /\ CountCalls("SubscribePendingTransactions") <= 1
    /\ (DialFailed \/ AFailed) => Done
    /\ (headErr = "taken" \/ txErr = "taken") =>
           pc \in {"fatalHead", "txErr", "done"}

\* C13 witness: both subscriptions were established, B's error was received
\* and the process is gone, each request made exactly once.
C13_Witness ==
    /\ Done /\ txErr = "taken" /\ headErr = "ready"
    /\ CountCalls("DialContext") = 1
    /\ CountCalls("SubscribeNewHead") = 1
    /\ CountCalls("SubscribePendingTransactions") = 1

\* C14: once the start message is out (Running), main stops only through an
\* interrupt received by the loop or an error received from a subscription;
\* processed events and the expiry of the dial context never end it.
C14_Claim ==
    (Done /\ Said("started") /\ exit # "sigkill") =>
        \/ exit = "ok" /\ Said("stopping")
        \/ exit = "fatal" /\ (headErr = "taken" \/ txErr = "taken")


\* number of items a step takes out of the five sources of the select
Consumed ==
    (headRecv' - headRecv) + (txRecv' - txRecv)
      + (IF headErr = "ready" /\ headErr' = "taken" THEN 1 ELSE 0)
      + (IF txErr = "ready" /\ txErr' = "taken" THEN 1 ELSE 0)
      + (IF sigBuf' < sigBuf THEN sigBuf - sigBuf' ELSE 0)

Handling == pc \in {"printHead", "printTx", "fatalHead", "txErr", "shutdown"}

\* C15: an iteration takes exactly one item from exactly one source, items
\* are taken nowhere else, and the handler of the item taken is finished (or
\* the process gone) before the next wait begins.
C15_OneItemPerIteration ==
    [][ /\ Consumed = (IF pc = "select" /\ pc' # "select" THEN 1 ELSE 0)
        /\ ((pc = "select" /\ pc' # "select") => Handling')
        /\ ((Handling /\ pc' # pc) => pc' \in {"loop", "done"})
        /\ (pc' = "select" /\ pc # "select" => (pc = "loop" /\ cur = 0))
      ]_vars

\* C15 witness: a header is being handled while a hash and an error of A are
\* ready and wait for a later iteration.
C15_Witness == pc = "printHead" /\ txRecv < txSent /\ headErr = "ready"

\* C16: a ready event and a ready interrupt have no priority over each
\* other: at a wait where both are ready the select may take either case, for
\* the header as for the hash.
C16_NoPriority ==
    /\ (pc = "select" /\ sigBuf > 0 /\ headRecv < headSent) =>
           (ENABLED RecvHead /\ ENABLED RecvSig)
    /\ (pc = "select" /\ sigBuf > 0 /\ txRecv < txSent) =>
           (ENABLED RecvTx /\ ENABLED RecvSig)

\* C16 witness: shutdown was taken first, after one header had been printed;
\* the header that was ready at that wait is never printed.
C16_Witness ==
    /\ Done /\ exit = "ok"
    /\ Printed("block") = <<1>> /\ headRecv = 1 /\ headSent = MaxEvents

\* C17: on the graceful path the teardown is A.Unsubscribe, B.Unsubscribe
\* when B exists, then Close, each once and in this order, and the shutdown
\* message is the last line printed.
C17_TeardownOrder ==
    /\ CountCalls("headSub.Unsubscribe") <= 1
    /\ CountCalls("txSub.Unsubscribe") <= 1
    /\ CountCalls("Close") <= 1
    /\ Called("txSub.Unsubscribe") =>
           (BEstablished /\ CallPos("headSub.Unsubscribe") < CallPos("txSub.Unsubscribe")
                         /\ CallPos("txSub.Unsubscribe") < CallPos("Close"))
    /\ Called("headSub.Unsubscribe") =>
           (exit = "ok" /\ CallPos("headSub.Unsubscribe") < CallPos("Close"))
    /\ exit = "ok" =>
           /\ Called("headSub.Unsubscribe") /\ Called("Close")
           /\ BEstablished => Called("txSub.Unsubscribe")
           /\ headSub = "unsubscribed" /\ txSub # "active" /\ conn = "closed"
    /\ Said("stopping") => out[Len(out)] = Line("stopping", 0)
    /\ pc = "shutdown" => (cur = 0 /\ Len(Printed("block")) = headRecv
                                   /\ Len(Printed("tx")) = txRecv)

\* C17 witness: graceful exit with both subscriptions unsubscribed while an
\* event of each stream was still on offer.
C17_Witness ==
    /\ exit = "ok" /\ Called("txSub.Unsubscribe")
    /\ headRecv < headSent /\ txRecv < txSent

C19_StreamsIndependent ==
    (pc = "select" /\ headSub = "active" /\ txSub = "active"
        /\ headErr = "none" /\ txErr = "none") =>
        /\ (ENABLED RecvHead) <=> (headRecv < headSent)
        /\ (ENABLED RecvTx) <=> (txRecv < txSent)

\* C19 witness: every hash was printed while the header stream stayed silent.
C19_Witness ==
    /\ Len(Printed("tx")) = MaxEvents /\ headSent = 0
    /\ headSub = "active" /\ headErr = "none" /\ txErr = "none"

====
